---- MODULE Spec2Model ----
(***************************************************************************)
(* A model of package smbus (smbus.go): one SMBus client, the os.File it   *)
(* wraps, and the i2c-dev character device behind it.                      *)
(*                                                                         *)
(* The client is the pair (bus, addr) of struct SMBus.  The kernel side is *)
(* the set of open file handles, the slave address each handle has had     *)
(* selected with the I2C_SLAVE ioctl, and counters of the system calls     *)
(* issued.  Every exported function of smbus.go is one action; `last`      *)
(* records what the most recent call was given, what it returned and what  *)
(* it asked of the kernel.                                                 *)
(***************************************************************************)
EXTENDS Integers, Sequences, FiniteSets, TLC

\* ------------------------------------------------------------------ bounds

\* API calls made on the client in one run (New included).
MaxCalls == 5
\* Device files the OS hands out in one run.
MaxOpens == 2

\* --------------------------------------------------------------- constants

i2c_SLAVE == 1795          \* 0x0703
NilFile == 0               \* a nil *os.File
BadFd == -1                \* what (*os.File)(nil).Fd() yields, as a C int

NoAddr == {}               \* sel of a handle on which no address was selected
NoErr == "nil"
ErrAlreadyOpen == "Can only open one bus at at time"
ErrInvalid == "os.ErrInvalid"
ErrClosed == "os.ErrClosed"
ENOENT == "ENOENT"
EBADF == "EBADF"
EBUSY == "EBUSY"
EIO == "EIO"

Handles == 1..MaxOpens
\* Bus addresses the caller uses: 0x00, 0x68, 0x69.
Addrs == {0, 104, 105}
\* Register bytes and values the caller uses.
Cmds == {208}
ByteVals == {16}
WordVals == {4660}
\* What the kernel hands back for a byte / word read (wider than the value).
KernelRets == {90, 65535}
\* Buffer lengths the caller uses (len(buf) = cap(buf), as make([]byte, n)).
BufLens == {0, 1, 31, 32, 33}
\* Byte counts the device reports for a block read or block process call.
KernelLens == {1, 5, 32}

VARIABLES
    phase,      \* "start" before New, "ready" once New returned a client,
                \* "failed" once New returned an error, "panicked" after a panic
    bus,        \* SMBus.bus: NilFile or a handle
    addr,       \* SMBus.addr
    fds,        \* handles the OS holds open
    nfd,        \* handles the OS has handed out
    sel,        \* per handle: the address selected by a successful I2C_SLAVE
    selIssued,  \* handles on which an I2C_SLAVE ioctl was issued
    nSelect,    \* I2C_SLAVE ioctls issued (on any descriptor)
    nTx,        \* bus transactions submitted (on any descriptor)
    nClose,     \* per handle: times the OS released it
    hist,       \* what the caller did since New: history for the properties
    calls,      \* API calls made
    last        \* the most recent call

vars == <<phase, bus, addr, fds, nfd, sel, selIssued, nSelect, nTx, nClose,
          hist, calls, last>>

\* The client and the kernel as one value, so that a call's steps compose.
Cur ==
    [bus |-> bus, addr |-> addr, fds |-> fds, nfd |-> nfd, sel |-> sel,
     selIssued |-> selIssued, nSelect |-> nSelect, nTx |-> nTx,
     nClose |-> nClose]

Commit(s) ==
    /\ bus' = s.bus
    /\ addr' = s.addr
    /\ fds' = s.fds
    /\ nfd' = s.nfd
    /\ sel' = s.sel
    /\ selIssued' = s.selIssued
    /\ nSelect' = s.nSelect
    /\ nTx' = s.nTx
    /\ nClose' = s.nClose

\* The record of a call: its name and arguments, its results, and what it
\* did between the state s0 it found and the state s1 it left.
Call(op, a, n, err, ret, out, fault, kfail, klen, s0, s1) ==
    [op |-> op, a |-> a, n |-> n, err |-> err, ret |-> ret, out |-> out,
     fault |-> fault, kfail |-> kfail, klen |-> klen,
     bus0 |-> s0.bus, addr0 |-> s0.addr, fds0 |-> s0.fds,
     sel |-> s1.nSelect - s0.nSelect, tx |-> s1.nTx - s0.nTx]

NoCall ==
    [op |-> "none", a |-> 0, n |-> 0, err |-> NoErr, ret |-> 0, out |-> <<>>,
     fault |-> "none", kfail |-> FALSE, klen |-> 0,
     bus0 |-> NilFile, addr0 |-> 0, fds0 |-> {}, sel |-> 0, tx |-> 0]

NoHist ==
    [newAddr |-> 0, changes |-> 0, want |-> 0, selFailed |-> FALSE,
     closed |-> FALSE, reopened |-> FALSE]

\* ------------------------------------------------------- os.File, ioctl

\* (*os.File).Fd: the descriptor, or ^uintptr(0) for a nil file.
Fd(f) == IF f = NilFile THEN BadFd ELSE f

\* (*os.File).Close: os.ErrInvalid on a nil file, else the handle is released.
FileClose(s, f) ==
    IF f = NilFile THEN [s |-> s, err |-> ErrInvalid]
    ELSE IF f \notin s.fds THEN [s |-> s, err |-> ErrClosed]
    ELSE [s |-> [s EXCEPT !.fds = @ \ {f}, !.nClose[f] = @ + 1], err |-> NoErr]

\* ioctl(fd, i2c_SLAVE, arg): the kernel refuses a descriptor that is not
\* open; on an open one it accepts (ok) or rejects the address.
ioctl(s, fd, cmd, arg, ok) ==
    LET e == IF fd \notin s.fds THEN EBADF ELSE IF ok THEN NoErr ELSE EBUSY
        k == [s EXCEPT !.nSelect = @ + 1,
                       !.selIssued = IF fd \in s.fds THEN @ \cup {fd} ELSE @]
    IN  IF e = NoErr /\ cmd = i2c_SLAVE
        THEN [s |-> [k EXCEPT !.sel[fd] = {arg}], err |-> NoErr]
        ELSE [s |-> k, err |-> e]

\* ------------------------------------------------------------ the client

\* Bus_open without its check for a bus that is already open.
BusOpenStep_unguarded(s, ok) ==
    IF ~ok THEN [s |-> s, err |-> ENOENT]
    ELSE LET f == s.nfd + 1
         IN  [s |-> [s EXCEPT !.bus = f, !.fds = @ \cup {f}, !.nfd = f],
              err |-> NoErr]

\* Bus_open: refuses when a bus is open, else opens /dev/i2c-<bus>.
BusOpenStep(s, ok) ==
    IF s.bus # NilFile THEN [s |-> s, err |-> ErrAlreadyOpen]
    ELSE IF ~ok THEN [s |-> s, err |-> ENOENT]
    ELSE LET f == s.nfd + 1
         IN  [s |-> [s EXCEPT !.bus = f, !.fds = @ \cup {f}, !.nfd = f],
              err |-> NoErr]

\* Bus_close: closes smb.bus and forgets it, unless Close fails.
BusCloseStep(s) ==
    LET r == FileClose(s, s.bus)
    IN  IF r.err # NoErr THEN [s |-> s, err |-> r.err]
        ELSE [s |-> [r.s EXCEPT !.bus = NilFile], err |-> NoErr]

\* Set_addr: the ioctl is issued only when the address differs from the
\* cached one, and the cache follows only a successful ioctl.
SetAddrStep(s, a, ok) ==
    IF s.addr # a
    THEN LET r == ioctl(s, Fd(s.bus), i2c_SLAVE, a, ok)
         IN  IF r.err # NoErr THEN r
             ELSE [s |-> [r.s EXCEPT !.addr = a], err |-> NoErr]
    ELSE [s |-> s, err |-> NoErr]

\* New: a client with no bus and address 0, then Bus_open, then Set_addr.
\* The client is returned only when both succeed.
NewStep(s, bus_, address, okOpen, okSel) ==
    LET smb == [s EXCEPT !.bus = NilFile, !.addr = 0]
        o == BusOpenStep(smb, okOpen)
        a == SetAddrStep(o.s, address, okSel)
    IN  IF o.err # NoErr THEN [s |-> o.s, err |-> o.err, smb |-> FALSE]
        ELSE IF a.err # NoErr THEN [s |-> a.s, err |-> a.err, smb |-> FALSE]
        ELSE [s |-> a.s, err |-> NoErr, smb |-> TRUE]

New(bus_, address, okOpen, okSel) ==
    /\ phase = "start"
    /\ calls < MaxCalls
    /\ okOpen => nfd < MaxOpens
    /\ LET r == NewStep(Cur, bus_, address, okOpen, okSel)
       IN  /\ Commit(r.s)
           /\ phase' = IF r.smb THEN "ready" ELSE "failed"
           /\ last' = Call("New", address, 0, r.err, 0, <<>>, "none", FALSE,
                           0, Cur, r.s)
           /\ hist' = [NoHist EXCEPT !.newAddr = address, !.want = address]
    /\ calls' = calls + 1

Bus_open(bus_, ok) ==
    /\ phase = "ready"
    /\ calls < MaxCalls
    /\ ok => nfd < MaxOpens
    /\ LET r == BusOpenStep(Cur, ok)
       IN  /\ Commit(r.s)
           /\ last' = Call("Bus_open", bus_, 0, r.err, 0, <<>>, "none", FALSE,
                           0, Cur, r.s)
           /\ hist' = [hist EXCEPT !.reopened = @ \/ (r.err = NoErr)]
    /\ calls' = calls + 1
    /\ UNCHANGED phase

Bus_close ==
    /\ phase = "ready"
    /\ calls < MaxCalls
    /\ LET r == BusCloseStep(Cur)
       IN  /\ Commit(r.s)
           /\ last' = Call("Bus_close", 0, 0, r.err, 0, <<>>, "none", FALSE,
                           0, Cur, r.s)
           /\ hist' = [hist EXCEPT !.closed = @ \/ (r.err = NoErr)]
    /\ calls' = calls + 1
    /\ UNCHANGED phase

Set_addr(a, ok) ==
    /\ phase = "ready"
    /\ calls < MaxCalls
    /\ LET r == SetAddrStep(Cur, a, ok)
       IN  /\ Commit(r.s)
           /\ last' = Call("Set_addr", a, 0, r.err, 0, <<>>, "none", FALSE,
                           0, Cur, r.s)
           /\ hist' = [hist EXCEPT
                         !.changes = IF a # hist.want THEN @ + 1 ELSE @,
                         !.want = a,
                         !.selFailed = @ \/ (r.err # NoErr)]
    /\ calls' = calls + 1
    /\ UNCHANGED phase

\* ------------------------------------------- the i2c-dev helpers (cgo)

\* One I2C_SMBUS transaction on descriptor fd: the kernel refuses a
\* descriptor that is not open, and on an open one reports success (kok) or
\* a failure status, which cgo hands to Go as the errno error.
Submit(s, fd, kok) ==
    [s |-> [s EXCEPT !.nTx = @ + 1],
     err |-> IF fd \notin s.fds THEN EBADF ELSE IF kok THEN NoErr ELSE EIO]

\* The 32 data bytes of the kernel's block after a read.
KBlock == [i \in 1..32 |-> (17 * i) % 256]

\* The length byte the helpers put in the block: at most 32.
Clamp(n) == IF n > 32 THEN 32 ELSE n

\* make([]byte, n)
MakeBuf(n) == [i \in 1..n |-> 0]

\* The helper's copy of the first L block bytes into the caller's buffer.
\* (Only for L <= Len(buf): beyond it the copy overruns the buffer.)
Fill(buf, L) == [i \in 1..Len(buf) |-> IF i <= L THEN KBlock[i] ELSE buf[i]]

\* ------------------------------------------------ the protocol operations

\* What every operation starts with: smb.Set_addr(smb.addr), its error
\* ignored.  On a value receiver the call works on a copy of the client, so
\* the client's own fields are left as they were (Read_word_data, on a
\* pointer receiver, writes back the address it read).
Reselect(s) ==
    LET r == SetAddrStep(s, s.addr, TRUE)
    IN  [r.s EXCEPT !.bus = s.bus, !.addr = s.addr]

\* Write_quick, Write_byte, Write_byte_data, Write_word_data: the error of
\* the helper call is the result.
WriteResult(err) == err

\* A byte read that zeroes ret on an error and then drops the error.
ByteResult_swallowed(ret, err) ==
    [ret |-> (IF err # NoErr THEN 0 ELSE ret) % 256, err |-> NoErr]

\* Read_byte, Read_byte_data: ret is zeroed on an error and masked to 8 bits.
ByteResult(ret, err) ==
    [ret |-> (IF err # NoErr THEN 0 ELSE ret) % 256, err |-> err]

\* Read_word_data, Process_call: ret is zeroed on an error and masked to 16
\* bits.
WordResult(ret, err) ==
    [ret |-> (IF err # NoErr THEN 0 ELSE ret) % 65536, err |-> err]

\* An operation without a buffer and without a result value.
ScalarWrite(op, a, kok) ==
    /\ phase = "ready"
    /\ calls < MaxCalls
    /\ LET s0 == Cur
           t == Submit(Reselect(s0), Fd(s0.bus), kok)
       IN  /\ Commit(t.s)
           /\ last' = Call(op, a, 0, WriteResult(t.err), 0, <<>>, "none",
                           t.err # NoErr, 0, s0, t.s)
    /\ calls' = calls + 1
    /\ UNCHANGED <<phase, hist>>

\* An operation without a buffer that returns the value the helper returns
\* (-1 when the transaction failed).
ScalarRead(op, a, kok, kret, wide) ==
    /\ phase = "ready"
    /\ calls < MaxCalls
    /\ LET s0 == Cur
           t == Submit(Reselect(s0), Fd(s0.bus), kok)
           ret == IF t.err # NoErr THEN -1 ELSE kret
           r == IF wide THEN WordResult(ret, t.err) ELSE ByteResult(ret, t.err)
       IN  /\ Commit(t.s)
           /\ last' = Call(op, a, 0, r.err, r.ret, <<>>, "none",
                           t.err # NoErr, 0, s0, t.s)
    /\ calls' = calls + 1
    /\ UNCHANGED <<phase, hist>>

Write_quick(value, kok) == ScalarWrite("Write_quick", value, kok)

Read_byte(kok, kret) == ScalarRead("Read_byte", 0, kok, kret, FALSE)

Write_byte(value, kok) == ScalarWrite("Write_byte", value, kok)

Read_byte_data(cmd, kok, kret) ==
    ScalarRead("Read_byte_data", cmd, kok, kret, FALSE)

Write_byte_data(cmd, value, kok) == ScalarWrite("Write_byte_data", cmd, kok)

Read_word_data(cmd, kok, kret) ==
    ScalarRead("Read_word_data", cmd, kok, kret, TRUE)

Write_word_data(cmd, value, kok) == ScalarWrite("Write_word_data", cmd, kok)

Process_call(cmd, value, kok, kret) ==
    ScalarRead("Process_call", cmd, kok, kret, TRUE)

\* &buf[0]: an index out of range panic on an empty slice.
FirstByte(buf) == Len(buf) > 0

\* buf[:ret]: a slice bounds out of range panic when ret exceeds cap(buf).
SliceTo(buf, ret) ==
    IF ret > Len(buf) THEN [panic |-> TRUE, out |-> <<>>]
    ELSE [panic |-> FALSE, out |-> SubSeq(buf, 1, ret)]

\* How a buffer operation ends: a panic or a crash ends the program.
Finish(op, a, n, err, ret, out, fault, kfail, klen, s0, s1) ==
    /\ Commit(s1)
    /\ last' = Call(op, a, n, err, ret, out, fault, kfail, klen, s0, s1)
    /\ phase' = IF fault \in {"panic", "segv"} THEN "panicked" ELSE phase
    /\ calls' = calls + 1
    /\ UNCHANGED hist

\* Read_block_data: the helper is not told len(buf); it copies the L bytes
\* the device reported into buf and returns L.  With L > len(buf) the copy
\* overruns the buffer: the call returns over corrupted memory, or crashes.
Read_block_data(cmd, n, kok, L, crash) ==
    /\ phase = "ready"
    /\ calls < MaxCalls
    /\ LET s0 == Cur
           s1 == Reselect(s0)
           buf == MakeBuf(n)
           t == Submit(s1, Fd(s0.bus), kok)
       IN  IF ~FirstByte(buf)
           THEN Finish("Read_block_data", cmd, n, "panic", 0, <<>>, "panic",
                       FALSE, 0, s0, s1)
           ELSE IF t.err # NoErr
           THEN Finish("Read_block_data", cmd, n, t.err, -1, buf, "none",
                       TRUE, 0, s0, t.s)
           ELSE IF L > n
           THEN Finish("Read_block_data", cmd, n, NoErr, L, Fill(buf, L),
                       IF crash THEN "segv" ELSE "overrun", FALSE, L, s0, t.s)
           ELSE Finish("Read_block_data", cmd, n, NoErr, L, Fill(buf, L),
                       "none", FALSE, L, s0, t.s)

\* Write_block_data: the helper sends at most 32 bytes of buf and returns
\* the count the device accepted (acc).
Write_block_data(cmd, n, kok, acc) ==
    /\ phase = "ready"
    /\ calls < MaxCalls
    /\ LET s0 == Cur
           s1 == Reselect(s0)
           buf == MakeBuf(n)
           t == Submit(s1, Fd(s0.bus), kok)
       IN  IF ~FirstByte(buf)
           THEN Finish("Write_block_data", cmd, n, "panic", 0, <<>>, "panic",
                       FALSE, 0, s0, s1)
           ELSE IF t.err # NoErr
           THEN Finish("Write_block_data", cmd, n, t.err, -1, <<>>, "none",
                       TRUE, 0, s0, t.s)
           ELSE Finish("Write_block_data", cmd, n, NoErr, acc, <<>>, "none",
                       FALSE, 0, s0, t.s)

\* Read_i2c_block_data: the helper asks for len(buf) bytes, at most 32, and
\* the kernel returns that many.
Read_i2c_block_data(cmd, n, kok) ==
    /\ phase = "ready"
    /\ calls < MaxCalls
    /\ LET s0 == Cur
           s1 == Reselect(s0)
           buf == MakeBuf(n)
           t == Submit(s1, Fd(s0.bus), kok)
       IN  IF ~FirstByte(buf)
           THEN Finish("Read_i2c_block_data", cmd, n, "panic", 0, <<>>,
                       "panic", FALSE, 0, s0, s1)
           ELSE IF t.err # NoErr
           THEN Finish("Read_i2c_block_data", cmd, n, t.err, -1, buf, "none",
                       TRUE, 0, s0, t.s)
           ELSE Finish("Read_i2c_block_data", cmd, n, NoErr, Clamp(n),
                       Fill(buf, Clamp(n)), "none", FALSE, Clamp(n), s0,
                       t.s)

Write_i2c_block_data(cmd, n, kok, acc) ==
    /\ phase = "ready"
    /\ calls < MaxCalls
    /\ LET s0 == Cur
           s1 == Reselect(s0)
           buf == MakeBuf(n)
           t == Submit(s1, Fd(s0.bus), kok)
       IN  IF ~FirstByte(buf)
           THEN Finish("Write_i2c_block_data", cmd, n, "panic", 0, <<>>,
                       "panic", FALSE, 0, s0, s1)
           ELSE IF t.err # NoErr
           THEN Finish("Write_i2c_block_data", cmd, n, t.err, -1, <<>>,
                       "none", TRUE, 0, s0, t.s)
           ELSE Finish("Write_i2c_block_data", cmd, n, NoErr, acc, <<>>,
                       "none", FALSE, 0, s0, t.s)

\* Block_process_call: the helper sends at most 32 bytes of buf, copies the
\* L bytes the device answered into buf and returns L; the result is
\* buf[:L].  With L > cap(buf) the copy overruns the buffer, and the program
\* crashes there or panics at the slice expression.
Block_process_call(cmd, n, kok, L, crash) ==
    /\ phase = "ready"
    /\ calls < MaxCalls
    /\ LET s0 == Cur
           s1 == Reselect(s0)
           buf == MakeBuf(n)
           t == Submit(s1, Fd(s0.bus), kok)
           r == SliceTo(Fill(buf, L), L)
       IN  IF ~FirstByte(buf)
           THEN Finish("Block_process_call", cmd, n, "panic", 0, <<>>,
                       "panic", FALSE, 0, s0, s1)
           ELSE IF t.err # NoErr
           THEN Finish("Block_process_call", cmd, n, t.err, 0, <<>>, "none",
                       TRUE, 0, s0, t.s)
           ELSE IF r.panic
           THEN Finish("Block_process_call", cmd, n, "panic", L, <<>>,
                       IF crash THEN "segv" ELSE "panic", FALSE, L, s0, t.s)
           ELSE Finish("Block_process_call", cmd, n, NoErr, L, r.out, "none",
                       FALSE, L, s0, t.s)

\* ---------------------------------------------------------- specification

Init ==
    /\ phase = "start"
    /\ bus = NilFile
    /\ addr = 0
    /\ fds = {}
    /\ nfd = 0
    /\ sel = [h \in Handles |-> NoAddr]
    /\ selIssued = {}
    /\ nSelect = 0
    /\ nTx = 0
    /\ nClose = [h \in Handles |-> 0]
    /\ hist = NoHist
    /\ calls = 0
    /\ last = NoCall

Next ==
    \/ \E b \in {1}, a \in Addrs, okOpen \in BOOLEAN, okSel \in BOOLEAN :
          New(b, a, okOpen, okSel)
    \/ \E b \in {1}, ok \in BOOLEAN : Bus_open(b, ok)
    \/ Bus_close
    \/ \E a \in Addrs, ok \in BOOLEAN : Set_addr(a, ok)
    \/ \E v \in ByteVals, kok \in BOOLEAN : Write_quick(v, kok)
    \/ \E kok \in BOOLEAN, kret \in KernelRets : Read_byte(kok, kret)
    \/ \E v \in ByteVals, kok \in BOOLEAN : Write_byte(v, kok)
    \/ \E c \in Cmds, kok \in BOOLEAN, kret \in KernelRets :
          Read_byte_data(c, kok, kret)
    \/ \E c \in Cmds, v \in ByteVals, kok \in BOOLEAN :
          Write_byte_data(c, v, kok)
    \/ \E c \in Cmds, kok \in BOOLEAN, kret \in KernelRets :
          Read_word_data(c, kok, kret)
    \/ \E c \in Cmds, v \in WordVals, kok \in BOOLEAN :
          Write_word_data(c, v, kok)
    \/ \E c \in Cmds, v \in WordVals, kok \in BOOLEAN, kret \in KernelRets :
          Process_call(c, v, kok, kret)
    \/ \E c \in Cmds, n \in BufLens, kok \in BOOLEAN, L \in KernelLens,
          crash \in BOOLEAN : Read_block_data(c, n, kok, L, crash)
    \/ \E c \in Cmds, n \in BufLens, kok \in BOOLEAN :
          \E acc \in {0, Clamp(n)} : Write_block_data(c, n, kok, acc)
    \/ \E c \in Cmds, n \in BufLens, kok \in BOOLEAN :
          Read_i2c_block_data(c, n, kok)
    \/ \E c \in Cmds, n \in BufLens, kok \in BOOLEAN :
          \E acc \in {0, Clamp(n)} : Write_i2c_block_data(c, n, kok, acc)
    \/ \E c \in Cmds, n \in BufLens, kok \in BOOLEAN, L \in KernelLens,
          crash \in BOOLEAN : Block_process_call(c, n, kok, L, crash)

Spec == Init /\ [][Next]_vars

\* ------------------------------------------------------------- properties

TxOps ==
    {"Write_quick", "Read_byte", "Write_byte", "Read_byte_data",
     "Write_byte_data", "Read_word_data", "Write_word_data", "Process_call",
     "Read_block_data", "Write_block_data", "Read_i2c_block_data",
     "Write_i2c_block_data", "Block_process_call"}

BlockOps ==
    {"Read_block_data", "Write_block_data", "Read_i2c_block_data",
     "Write_i2c_block_data", "Block_process_call"}

\* The protocol's ceiling on a buffer's length.
MaxLenOf(op) == IF op = "Block_process_call" THEN 31 ELSE 32

\* The call returned an error to its caller (it did not panic or crash).
ReturnedError(c) == c.fault = "none" /\ c.err \notin {NoErr, "panic"}

\* C1: a buffer operation given a buffer of length 0, or longer than 32 (31
\* for Block_process_call), returns an error and submits no transaction.
C1_BadLengthRejected ==
    (last.op \in BlockOps /\ (last.n = 0 \/ last.n > MaxLenOf(last.op)))
        => (ReturnedError(last) /\ last.tx = 0)

\* C2: on a client New(bus, a) returned, after at least one transaction and
\* with every address-select accepted and the bus never closed, the
\* address-select ioctl has been issued once for New plus once for each
\* (at most one) Set_addr to a new address.
C2_SelectOncePerAddress ==
    (/\ phase = "ready"
     /\ nTx >= 1
     /\ hist.changes <= 1
     /\ ~hist.selFailed /\ ~hist.closed /\ ~hist.reopened)
        => nSelect = 1 + hist.changes

\* C3: a transaction is submitted only on an open handle on which the
\* client's cached address has been selected by a successful ioctl.
C3_TxOnlyAfterSelect ==
    last.tx > 0
        => (last.bus0 \in last.fds0 /\ sel[last.bus0] = {last.addr0})

\* C4: once the bus has been closed and opened again, a Set_addr call or a
\* transaction on the new handle leaves that handle with an address-select
\* ioctl issued on it.
C4_ReselectAfterReopen ==
    (hist.reopened /\ last.op \in TxOps \cup {"Set_addr"} /\ bus \in fds)
        => bus \in selIssued

\* C5: after a successful Bus_close, and until the bus is opened again, a
\* protocol operation or Set_addr returns an error and issues neither an
\* ioctl nor a transaction.
C5_ClosedRejects ==
    (hist.closed /\ last.op \in TxOps \cup {"Set_addr"}
        /\ last.bus0 = NilFile)
        => (ReturnedError(last) /\ last.sel = 0 /\ last.tx = 0)

\* C6: Bus_close on a client with no open bus returns no error, and no
\* handle is released more than once.
C6_CloseIdempotent ==
    /\ (last.op = "Bus_close" /\ last.bus0 = NilFile) => last.err = NoErr
    /\ \A h \in Handles : nClose[h] <= 1

\* C7: when New returns an error, no handle is left open.
C7_NoLeakOnFailedNew == phase = "failed" => fds = {}

\* C8: Bus_open on a client whose bus is open returns the already-open
\* error, opens nothing and leaves the handle and the cached address as
\* they were; a client holds at most one open handle.
C8_SecondOpenRejected ==
    /\ (last.op = "Bus_open" /\ last.bus0 # NilFile)
          => /\ last.err = ErrAlreadyOpen
             /\ bus = last.bus0
             /\ addr = last.addr0
             /\ fds = last.fds0
    /\ phase \in {"ready", "panicked"} => Cardinality(fds) <= 1

C8_Witness ==
    /\ last.op = "Bus_open"
    /\ last.bus0 \in last.fds0
    /\ last.err = ErrAlreadyOpen
    /\ bus \in fds

\* C9: a protocol operation submits at most one transaction, and when the
\* kernel reports the transaction failed it returns a non-nil error.
C9_FailureSurfaced ==
    last.op \in TxOps
        => /\ last.tx <= 1
           /\ last.kfail => (ReturnedError(last) /\ last.tx = 1)

C9_Witness ==
    /\ last.op = "Read_byte"
    /\ last.bus0 \in last.fds0
    /\ last.kfail
    /\ last.err = EIO
    /\ last.ret = 0

\* C10: Read_block_data with a device-reported count L below len(buf)
\* returns L, and Block_process_call with 1..31 bytes in and a
\* device-reported count L in 1..31 returns exactly the first L bytes the
\* kernel supplied.
C10_BlockResultSized ==
    /\ (last.op = "Read_block_data" /\ last.tx = 1 /\ ~last.kfail
            /\ last.klen < last.n)
          => /\ last.err = NoErr
             /\ last.ret = last.klen
             /\ SubSeq(last.out, 1, last.klen) = SubSeq(KBlock, 1, last.klen)
    /\ (last.op = "Block_process_call" /\ last.tx = 1 /\ ~last.kfail
            /\ last.n \in 1..31 /\ last.klen \in 1..31)
          => /\ last.fault = "none"
             /\ last.err = NoErr
             /\ last.out = SubSeq(KBlock, 1, last.klen)

====
